---- MODULE Spec2Model ----
(***************************************************************************)
(* Model of the load-test engine of go-test: runTest / runSingleConfigTest *)
(* (src/unnamed/part_000, lines 336-474) and RequestHandler.NewRequest     *)
(* (src/utils.go).  One campaign per request configuration; each campaign  *)
(* fills a closed channel with totalRequests units and launches            *)
(* concurrency goroutines that share one Result under one sync.Mutex.      *)
(***************************************************************************)
EXTENDS Integers, Sequences, FiniteSets, TLC

(* ---------------------------- bounds ----------------------------------- *)
MaxTargets == 2
MaxC == 2
MaxN == 2
MaxLoad == 4
MaxLen == 3

(* ------------------------- program constants --------------------------- *)
StatusOK == 200
interval == 100

(* ------------------------- Go / JSON values ---------------------------- *)
\* interface{} values as json.Unmarshal and gjson's Result.Value() produce
\* them: nil, float64, string, map[string]interface{}.  A float64 is kept by
\* its decimal text, which is also what fmt's %v prints for it.
Nil == [t |-> "nil", v |-> "", f |-> <<>>]
Num(n) == [t |-> "num", v |-> ToString(n), f |-> <<>>]
Str(s) == [t |-> "str", v |-> s, f |-> <<>>]
Obj(members) == [t |-> "obj", v |-> "", f |-> members]

\* Response bodies the target may send (parsed JSON text).
BodyOk == Obj(("code" :> Num(200)) @@ ("message" :> Str("ok")))
BodyFail == Obj(("code" :> Num(500)) @@ ("message" :> Str("fail")))
BodyMixed == Obj(("code" :> Num(200)) @@ ("message" :> Str("fail")))
\* {"a":{"b":{"c":5}}}, {"a":{"b":{}}} and {"a":{"b":{"c":null}}}.
BodyFive == Obj("a" :> Obj("b" :> Obj("c" :> Num(5))))
BodyEmpty == Obj("a" :> Obj("b" :> Obj([k \in {} |-> Nil])))
BodyNull == Obj("a" :> Obj("b" :> Obj("c" :> Nil)))
Bodies == {BodyOk, BodyFail, BodyMixed, BodyFive, BodyEmpty, BodyNull}

\* Field paths of the configurations below, split at the dots as gjson does.
SplitPath(key) ==
    CASE key = "code" -> <<"code">>
      [] key = "message" -> <<"message">>
      [] key = "a.b.c" -> <<"a", "b", "c">>
      [] OTHER -> <<key>>

\* gjson.Get: descend through object members; Exists is FALSE when a member
\* is missing or a non-object is met before the path ends.
RECURSIVE Descend(_, _)
Descend(json, path) ==
    IF path = <<>> THEN [Exists |-> TRUE, val |-> json]
    ELSE IF json.t = "obj" /\ Head(path) \in DOMAIN json.f
         THEN Descend(json.f[Head(path)], Tail(path))
         ELSE [Exists |-> FALSE, val |-> Nil]

\* gjson.Get(jsonStr, key).Value(): a path that does not exist yields the zero
\* Result, whose Value() is nil, exactly as for an explicit JSON null.
gjsonGetValue(jsonStr, key) == Descend(jsonStr, SplitPath(key)).val

\* fmt's %v verb: nil prints as <nil>, a float64 and a string print bare.
FmtV(x) == IF x.t = "nil" THEN "<nil>" ELSE x.v

FieldMessage(key, value, jsonValue) ==
    "field " \o key \o " expect " \o FmtV(value) \o " actual " \o FmtV(jsonValue)

BodyReadMessage == "read body error: unexpected EOF"

\* err.Error() of a transport failure returned by client.Do.
TransportMessage == "Get http://t/ok: connection refused"
\* URL of a configuration that url.Parse rejects, and the message NewRequest
\* wraps the parse error in.
BadURL == "http://t/%zz"
URLParseMessage == "URL parse error: invalid URL escape %zz"

(* --------------------------- inputs ------------------------------------ *)
NoData == [k \in {} |-> Nil]
CfgPlain == [URL |-> "http://t/ok", Status |-> 0, Data |-> NoData]
CfgCode == [URL |-> "http://t/ok", Status |-> 200, Data |-> ("code" :> Num(200))]
CfgTwo == [URL |-> "http://t/ok", Status |-> 200,
           Data |-> ("code" :> Num(200)) @@ ("message" :> Str("ok"))]
CfgBadURL == [URL |-> BadURL, Status |-> 0, Data |-> NoData]
\* A target whose field "a.b.c" is expected to be null.
NestedURL == "http://t/abc"
CfgNull == [URL |-> NestedURL, Status |-> 200, Data |-> ("a.b.c" :> Nil)]
Configs == {CfgPlain, CfgTwo, CfgBadURL, CfgNull}

\* The documents the server behind a URL answers with.
BodiesAt(url) ==
    IF url = NestedURL THEN {BodyFive, BodyEmpty, BodyNull}
    ELSE {BodyOk, BodyFail, BodyMixed}

\* What the network answers to one submitted request.
Statuses == {200, 500}
NetOutcomes == [kind : {"refused", "timeout"}, StatusCode : {0}]
               \cup [kind : {"response"}, StatusCode : Statuses]
\* Elapsed milliseconds a request may take, and wall-clock campaign times.
Latencies == {20, 135}
WallTimes == {400}

Targets == 1..MaxTargets
Workers == 1..MaxC

(* ---------------------------- state ------------------------------------ *)
VARIABLES
    requestList,    \* runTest argument: the parsed configurations
    concurrency,    \* -c
    totalRequests,  \* -n
    mainpc,         \* position of the goroutine running runTest
    index,          \* 1-based position of runTest's range loop
    results,        \* runTest's results slice
    request,        \* request[t]: runSingleConfigTest's request parameter
    requestChan,    \* requestChan[t]: buffered units and the closed flag
    wg,             \* wg[t]: the WaitGroup counter
    mu,             \* mu[t]: TRUE while the Mutex is locked
    result,         \* result[t]: the shared Result
    started,        \* started[t]: goroutines launched so far
    pc,             \* pc[t][w]: position of worker goroutine w of campaign t
    loc,            \* loc[t][w]: the goroutine's local variables
    showIndex,      \* 1-based position of showResult's range over results
    distribution,   \* showResult's distribution slice
    position        \* 1-based position of the range over RequestsTimes

vars == <<requestList, concurrency, totalRequests, mainpc, index, results,
          request, requestChan, wg, mu, result, started, pc, loc,
          showIndex, distribution, position>>
inputs == <<requestList, concurrency, totalRequests>>
show == <<showIndex, distribution, position>>

EmptyMap == [k \in {} |-> 0]

NewResult(config) ==
    [RequestConfig |-> config, TotalRequests |-> 0, SuccessRequests |-> 0,
     TotalTime |-> 0, MaxTime |-> 0, AvgTime |-> 0, RequestsTimes |-> <<>>,
     RequestTimeoutNum |-> 0, ErrorCodes |-> EmptyMap, ErrorMessages |-> EmptyMap]

NoLocals ==
    [err |-> "", errMessage |-> "", StatusCode |-> 0, body |-> Nil,
     readErr |-> FALSE, statusFlag |-> FALSE, fieldFlag |-> FALSE,
     keys |-> {}, key |-> ""]

\* Go's m[k]++ on a map: a missing key counts from zero.
Increment(m, k) ==
    IF k \in DOMAIN m THEN [m EXCEPT ![k] = @ + 1] ELSE m @@ (k :> 1)

\* The state runTest starts in, whatever its arguments.
Start ==
    /\ mainpc = "loop"
    /\ index = 1
    /\ results = <<>>
    /\ request = [t \in Targets |-> CfgPlain]
    /\ requestChan = [t \in Targets |-> [n |-> 0, closed |-> FALSE]]
    /\ wg = [t \in Targets |-> 0]
    /\ mu = [t \in Targets |-> FALSE]
    /\ result = [t \in Targets |-> NewResult(CfgPlain)]
    /\ started = [t \in Targets |-> 0]
    /\ pc = [t \in Targets |-> [w \in Workers |-> "idle"]]
    /\ loc = [t \in Targets |-> [w \in Workers |-> NoLocals]]
    /\ showIndex = 1
    /\ distribution = <<>>
    /\ position = 1

(* ------------------- the goroutine running runTest --------------------- *)
\* The range loop without the default for an omitted expected status.
RunTestNextNoDefault ==
    /\ mainpc = "loop"
    /\ IF index <= Len(requestList)
       THEN /\ request' = [request EXCEPT ![index] = requestList[index]]
            /\ result' = [result EXCEPT ![index] = NewResult(requestList[index])]
            /\ requestChan' = [requestChan EXCEPT ![index] = [n |-> 0, closed |-> FALSE]]
            /\ mainpc' = "fill"
       ELSE /\ mainpc' = "return"
            /\ UNCHANGED <<request, result, requestChan>>
    /\ UNCHANGED <<inputs, show, index, results, wg, mu, started, pc, loc>>

\* runTest's range loop: default the expected status, then enter
\* runSingleConfigTest, which creates the Result and the channel.
RunTestNext ==
    /\ mainpc = "loop"
    /\ IF index <= Len(requestList)
       THEN LET cfg == requestList[index]
                req == IF cfg.Status = 0 THEN [cfg EXCEPT !.Status = StatusOK]
                       ELSE cfg
            IN /\ request' = [request EXCEPT ![index] = req]
               /\ result' = [result EXCEPT ![index] = NewResult(req)]
               /\ requestChan' = [requestChan EXCEPT ![index] = [n |-> 0, closed |-> FALSE]]
               /\ mainpc' = "fill"
       ELSE /\ mainpc' = "return"
            /\ UNCHANGED <<request, result, requestChan>>
    /\ UNCHANGED <<inputs, show, index, results, wg, mu, started, pc, loc>>

\* requestChan <- struct{}{}: one unit per iteration of the fill loop.
Enqueue ==
    /\ mainpc = "fill"
    /\ requestChan[index].n < totalRequests
    /\ requestChan' = [requestChan EXCEPT ![index].n = @ + 1]
    /\ UNCHANGED <<inputs, show, mainpc, index, results, request, wg, mu, result,
                   started, pc, loc>>

\* The fill loop without the close: the channel stays open.
CloseChanOmitted ==
    /\ mainpc = "fill"
    /\ requestChan[index].n = totalRequests
    /\ mainpc' = "launch"
    /\ UNCHANGED <<inputs, show, index, results, request, requestChan, wg, mu, result,
                   started, pc, loc>>

\* close(requestChan) once the fill loop has run totalRequests times.
CloseChan ==
    /\ mainpc = "fill"
    /\ requestChan[index].n = totalRequests
    /\ requestChan' = [requestChan EXCEPT ![index].closed = TRUE]
    /\ mainpc' = "launch"
    /\ UNCHANGED <<inputs, show, index, results, request, wg, mu, result, started,
                   pc, loc>>

\* A launch loop that starts a pool of fixed size, whatever -c says.
LaunchFixedPool ==
    /\ mainpc = "launch"
    /\ started[index] < MaxC
    /\ wg' = [wg EXCEPT ![index] = @ + 1]
    /\ started' = [started EXCEPT ![index] = @ + 1]
    /\ pc' = [pc EXCEPT ![index][started[index] + 1] = "range"]
    /\ UNCHANGED <<inputs, show, mainpc, index, results, request, requestChan, mu,
                   result, loc>>

\* wg.Add(1); go func() {...}(): one goroutine per iteration.
Launch ==
    /\ mainpc = "launch"
    /\ started[index] < concurrency
    /\ wg' = [wg EXCEPT ![index] = @ + 1]
    /\ started' = [started EXCEPT ![index] = @ + 1]
    /\ pc' = [pc EXCEPT ![index][started[index] + 1] = "range"]
    /\ UNCHANGED <<inputs, show, mainpc, index, results, request, requestChan, mu,
                   result, loc>>

\* A Wait that returns while goroutines are still running.
WaitReadyEarly(t) == TRUE

\* wg.Wait() returns when the counter is zero.
WaitReady(t) == wg[t] = 0

Wait ==
    /\ mainpc = "launch"
    /\ started[index] = concurrency
    /\ WaitReady(index)
    /\ mainpc' = "finish"
    /\ UNCHANGED <<inputs, show, index, results, request, requestChan, wg, mu,
                   result, started, pc, loc>>

RECURSIVE Sum(_)
Sum(durations) ==
    IF durations = <<>> THEN 0 ELSE Head(durations) + Sum(Tail(durations))

\* A mean that rounds up.
averageRoundedUp(durations) ==
    IF Len(durations) = 0 THEN 0
    ELSE (Sum(durations) + Len(durations) - 1) \div Len(durations)

average(durations) ==
    IF Len(durations) = 0 THEN 0 ELSE Sum(durations) \div Len(durations)

RECURSIVE maxFrom(_, _)
maxFrom(durations, max) ==
    IF durations = <<>> THEN max
    ELSE maxFrom(Tail(durations), IF Head(durations) > max THEN Head(durations) ELSE max)

maxDuration(durations) == maxFrom(durations, 0)

\* The derived fields, the return, and runTest's append of the result.
Finish ==
    /\ mainpc = "finish"
    /\ \E total \in WallTimes :
         LET r == [result[index] EXCEPT
                     !.TotalTime = total,
                     !.AvgTime = average(result[index].RequestsTimes),
                     !.MaxTime = maxDuration(result[index].RequestsTimes)]
         IN /\ result' = [result EXCEPT ![index] = r]
            /\ results' = Append(results, r)
    /\ index' = index + 1
    /\ mainpc' = "loop"
    /\ UNCHANGED <<inputs, show, request, requestChan, wg, mu, started, pc, loc>>

(* ------------------------------ showResult ----------------------------- *)
\* A histogram with one bucket too few.
maxIntervalNoExtra(maxMs) == maxMs \div interval

\* maxInterval := maxMs/interval + 1
maxInterval(maxMs) == maxMs \div interval + 1

\* The head of the range over results: distribution := make([]int,
\* maxInterval) for the next result, or the return after the last one.
\* make panics on a negative length.
MakeDistribution ==
    /\ mainpc = "show"
    /\ IF showIndex > Len(results)
       THEN /\ mainpc' = "shown"
            /\ UNCHANGED <<distribution, position>>
       ELSE LET n == maxInterval(results[showIndex].MaxTime)
            IN IF n < 0
               THEN /\ mainpc' = "panic"
                    /\ UNCHANGED <<distribution, position>>
               ELSE /\ distribution' = [i \in 1..n |-> 0]
                    /\ position' = 1
                    /\ mainpc' = "count"
    /\ UNCHANGED <<inputs, index, results, request, requestChan, wg, mu, result,
                   started, pc, loc, showIndex>>

\* One iteration of the range over reqResult.RequestsTimes: index := ms /
\* interval, clamped to maxInterval - 1; distribution[index]++, which panics
\* when index is out of range.  The slice is 0-based, the sequence 1-based.
CountLatency ==
    /\ mainpc = "count"
    /\ position <= Len(results[showIndex].RequestsTimes)
    /\ LET ms == results[showIndex].RequestsTimes[position]
           n == maxInterval(results[showIndex].MaxTime)
           i == IF ms \div interval >= n THEN n - 1 ELSE ms \div interval
       IN IF i + 1 \in DOMAIN distribution
          THEN /\ distribution' = [distribution EXCEPT ![i + 1] = @ + 1]
               /\ position' = position + 1
               /\ UNCHANGED mainpc
          ELSE /\ mainpc' = "panic"
               /\ UNCHANGED <<distribution, position>>
    /\ UNCHANGED <<inputs, index, results, request, requestChan, wg, mu, result,
                   started, pc, loc, showIndex>>

\* The range over RequestsTimes is over: the distribution is printed and
\* the range over results goes on.
PrintDistribution ==
    /\ mainpc = "count"
    /\ position > Len(results[showIndex].RequestsTimes)
    /\ showIndex' = showIndex + 1
    /\ mainpc' = "show"
    /\ UNCHANGED <<inputs, index, results, request, requestChan, wg, mu, result,
                   started, pc, loc, distribution, position>>

(* ----------------------- the worker goroutines ------------------------- *)
\* A NewRequest that sends whatever the URL is.
NewRequestSkipsParse(config, net) ==
    IF net.kind = "timeout"
    THEN [err |-> "timeout", errMessage |-> "Get http://t/ok: Client.Timeout exceeded",
          StatusCode |-> 0]
    ELSE IF net.kind = "refused"
    THEN [err |-> "transport", errMessage |-> TransportMessage, StatusCode |-> 0]
    ELSE [err |-> "", errMessage |-> "", StatusCode |-> net.StatusCode]

\* RequestHandler.NewRequest: url.Parse fails before anything is sent;
\* otherwise the outcome is client.Do's.
NewRequest(config, net) ==
    IF config.URL = BadURL
    THEN [err |-> "build", errMessage |-> URLParseMessage, StatusCode |-> 0]
    ELSE IF net.kind = "timeout"
    THEN [err |-> "timeout", errMessage |-> "Get http://t/ok: Client.Timeout exceeded",
          StatusCode |-> 0]
    ELSE IF net.kind = "refused"
    THEN [err |-> "transport", errMessage |-> TransportMessage, StatusCode |-> 0]
    ELSE [err |-> "", errMessage |-> "", StatusCode |-> net.StatusCode]

\* A timeout test that never recognises a timeout.
IsTimeoutNever(err) == FALSE

\* err.(net.Error) with Timeout() true.
IsTimeout(err) == err = "timeout"

\* A range loop that starts a request without taking the unit off the channel.
RangeKeepsUnit(t, w) ==
    /\ pc[t][w] = "range"
    /\ IF requestChan[t].n > 0
       THEN /\ pc' = [pc EXCEPT ![t][w] = "request"]
            /\ UNCHANGED <<wg, requestChan>>
       ELSE /\ requestChan[t].closed
            /\ pc' = [pc EXCEPT ![t][w] = "done"]
            /\ wg' = [wg EXCEPT ![t] = @ - 1]
            /\ UNCHANGED requestChan
    /\ UNCHANGED <<inputs, show, mainpc, index, results, request, mu, result,
                   started, loc>>

\* for range requestChan: take one unit, or leave the loop when the channel
\* is closed and drained; leaving runs the deferred wg.Done().
Range(t, w) ==
    /\ pc[t][w] = "range"
    /\ IF requestChan[t].n > 0
       THEN /\ requestChan' = [requestChan EXCEPT ![t].n = @ - 1]
            /\ pc' = [pc EXCEPT ![t][w] = "request"]
            /\ UNCHANGED wg
       ELSE /\ requestChan[t].closed
            /\ pc' = [pc EXCEPT ![t][w] = "done"]
            /\ wg' = [wg EXCEPT ![t] = @ - 1]
            /\ UNCHANGED requestChan
    /\ UNCHANGED <<inputs, show, mainpc, index, results, request, mu, result,
                   started, loc>>

\* handler.NewRequest(request) returns.
DoRequest(t, w) ==
    /\ pc[t][w] = "request"
    /\ \E net \in NetOutcomes :
         LET r == NewRequest(request[t], net)
         IN loc' = [loc EXCEPT ![t][w] = [NoLocals EXCEPT !.err = r.err,
                                            !.errMessage = r.errMessage,
                                            !.StatusCode = r.StatusCode]]
    /\ pc' = [pc EXCEPT ![t][w] = "lock387"]
    /\ UNCHANGED <<inputs, show, mainpc, index, results, request, requestChan, wg,
                   mu, result, started>>

\* The mu.Lock() call sites and the critical section each one opens.
LockSites == {"lock387", "lock396", "lock401", "lock414", "lock419", "lock440",
              "lock450", "lock455"}
Section(site) ==
    CASE site = "lock387" -> "cs388"
      [] site = "lock396" -> "cs397"
      [] site = "lock401" -> "cs402"
      [] site = "lock414" -> "cs415"
      [] site = "lock419" -> "cs420"
      [] site = "lock440" -> "cs441"
      [] site = "lock450" -> "cs451"
      [] site = "lock455" -> "cs456"
Sections == {Section(site) : site \in LockSites}

\* A lock that lets a second goroutine in.
CanLockHeld(t) == TRUE

\* sync.Mutex.Lock proceeds only when the mutex is unlocked.
CanLock(t) == ~mu[t]

Lock(t, w) ==
    /\ pc[t][w] \in LockSites
    /\ CanLock(t)
    /\ mu' = [mu EXCEPT ![t] = TRUE]
    /\ pc' = [pc EXCEPT ![t][w] = Section(pc[t][w])]
    /\ UNCHANGED <<inputs, show, mainpc, index, results, request, requestChan, wg,
                   result, started, loc>>

\* A first critical section that forgets to count the attempt.
CountTotalOmitted(t, w) ==
    /\ pc[t][w] = "cs388"
    /\ UNCHANGED result
    /\ mu' = [mu EXCEPT ![t] = FALSE]
    /\ pc' = [pc EXCEPT ![t][w] =
                IF loc[t][w].err # ""
                THEN IF IsTimeout(loc[t][w].err) THEN "lock396" ELSE "lock401"
                ELSE "read411"]
    /\ UNCHANGED loc
    /\ UNCHANGED <<inputs, show, mainpc, index, results, request, requestChan, wg,
                   started>>

\* result.TotalRequests += 1; Unlock; then the branch on err.
CountTotal(t, w) ==
    /\ pc[t][w] = "cs388"
    /\ result' = [result EXCEPT ![t].TotalRequests = @ + 1]
    /\ mu' = [mu EXCEPT ![t] = FALSE]
    /\ pc' = [pc EXCEPT ![t][w] =
                IF loc[t][w].err # ""
                THEN IF IsTimeout(loc[t][w].err) THEN "lock396" ELSE "lock401"
                ELSE "read411"]
    /\ UNCHANGED loc
    /\ UNCHANGED <<inputs, show, mainpc, index, results, request, requestChan, wg,
                   started>>

\* result.RequestTimeoutNum++; append the latency; Unlock.  elapsed, measured
\* just before the Lock, is read here only, so its value is drawn here.
CountTimeout(t, w) ==
    /\ pc[t][w] = "cs397"
    /\ \E elapsed \in Latencies :
         result' = [result EXCEPT ![t].RequestTimeoutNum = @ + 1,
                                  ![t].RequestsTimes = Append(@, elapsed)]
    /\ mu' = [mu EXCEPT ![t] = FALSE]
    /\ pc' = [pc EXCEPT ![t][w] = "range"]
    /\ loc' = [loc EXCEPT ![t][w] = NoLocals]
    /\ UNCHANGED <<inputs, show, mainpc, index, results, request, requestChan, wg,
                   started>>

\* result.ErrorMessages[err.Error()]++; Unlock.
CountError(t, w) ==
    /\ pc[t][w] = "cs402"
    /\ result' = [result EXCEPT ![t].ErrorMessages = Increment(@, loc[t][w].errMessage)]
    /\ mu' = [mu EXCEPT ![t] = FALSE]
    /\ pc' = [pc EXCEPT ![t][w] = "range"]
    /\ loc' = [loc EXCEPT ![t][w] = NoLocals]
    /\ UNCHANGED <<inputs, show, mainpc, index, results, request, requestChan, wg,
                   started>>

\* io.ReadAll(resp.Body) and Close.
ReadAll(t, w) ==
    /\ pc[t][w] = "read411"
    /\ \E body \in BodiesAt(request[t].URL), readErr \in BOOLEAN :
         loc' = [loc EXCEPT ![t][w].body = IF readErr THEN Nil ELSE body,
                            ![t][w].readErr = readErr]
    /\ pc' = [pc EXCEPT ![t][w] = "lock414"]
    /\ UNCHANGED <<inputs, show, mainpc, index, results, request, requestChan, wg,
                   mu, result, started>>

\* The comparison of one declared field: jsonValue != value.
FieldMismatch(config, body, key) == gjsonGetValue(body, key) # config.Data[key]

\* A verdict that looks at the status alone.
VerdictStatusOnly(statusFlag, fieldFlag) ==
    IF statusFlag THEN "lock450" ELSE "lock455"

\* if statusFlag && fieldFlag {...} else { if !statusFlag {...} }: the
\* mu.Lock() the goroutine reaches, or the next iteration of the range loop.
Verdict(statusFlag, fieldFlag) ==
    IF statusFlag /\ fieldFlag THEN "lock450"
    ELSE IF ~statusFlag THEN "lock455"
    ELSE "range"

\* A field loop that stops looking after the first mismatch it reports.
FieldWalkFirstOnly(config, l) ==
    LET bad == {key \in l.keys : FieldMismatch(config, l.body, key)}
    IN IF bad # {} /\ l.fieldFlag
       THEN {<<"lock440", [l EXCEPT !.keys = bad \ {key}, !.key = key]>> : key \in bad}
       ELSE LET next == Verdict(l.statusFlag, l.fieldFlag)
            IN {<<next, IF next = "range" THEN NoLocals ELSE [l EXCEPT !.keys = {}]>>}

\* The goroutine's own steps from the range over request.Response.Data on:
\* it passes over matching keys and stops at the mu.Lock() of the next
\* mismatching key (Go visits the keys of a map in an unspecified order, so
\* any of them may come first), or, the keys exhausted, at its verdict.
\* l.keys holds the keys not yet reported.  The result is the set of
\* <<position, locals>> pairs the goroutine may stop at.
FieldWalk(config, l) ==
    LET bad == {key \in l.keys : FieldMismatch(config, l.body, key)}
    IN IF bad # {}
       THEN {<<"lock440", [l EXCEPT !.keys = bad \ {key}, !.key = key]>> : key \in bad}
       ELSE LET next == Verdict(l.statusFlag, l.fieldFlag)
            IN {<<next, IF next = "range" THEN NoLocals ELSE [l EXCEPT !.keys = {}]>>}

\* Append the latency of the received response; Unlock; then either the
\* body-read error path or the status comparison and the field loop.
\* elapsed, measured just before the Lock, is read here only, so its value is
\* drawn here.
AppendLatency(t, w) ==
    /\ pc[t][w] = "cs415"
    /\ \E elapsed \in Latencies :
         result' = [result EXCEPT ![t].RequestsTimes = Append(@, elapsed)]
    /\ mu' = [mu EXCEPT ![t] = FALSE]
    /\ IF loc[t][w].readErr
       THEN /\ pc' = [pc EXCEPT ![t][w] = "lock419"]
            /\ UNCHANGED loc
       ELSE \E stop \in FieldWalk(request[t],
                         [loc[t][w] EXCEPT
                            !.statusFlag = (request[t].Status = loc[t][w].StatusCode),
                            !.fieldFlag = TRUE,
                            !.keys = DOMAIN request[t].Data]) :
              /\ pc' = [pc EXCEPT ![t][w] = stop[1]]
              /\ loc' = [loc EXCEPT ![t][w] = stop[2]]
    /\ UNCHANGED <<inputs, show, mainpc, index, results, request, requestChan, wg,
                   started>>

\* result.ErrorMessages[read error]++; Unlock; break.  The break leaves the
\* range loop, so the goroutine returns and its deferred wg.Done() runs.
CountReadError(t, w) ==
    /\ pc[t][w] = "cs420"
    /\ result' = [result EXCEPT ![t].ErrorMessages = Increment(@, BodyReadMessage)]
    /\ mu' = [mu EXCEPT ![t] = FALSE]
    /\ pc' = [pc EXCEPT ![t][w] = "done"]
    /\ wg' = [wg EXCEPT ![t] = @ - 1]
    /\ loc' = [loc EXCEPT ![t][w] = NoLocals]
    /\ UNCHANGED <<inputs, show, mainpc, index, results, request, requestChan,
                   started>>

\* fieldFlag = false; result.ErrorMessages[field message]++; Unlock; then the
\* rest of the field loop.
CountField(t, w) ==
    /\ pc[t][w] = "cs441"
    /\ LET key == loc[t][w].key
           msg == FieldMessage(key, request[t].Data[key],
                               gjsonGetValue(loc[t][w].body, key))
       IN result' = [result EXCEPT ![t].ErrorMessages = Increment(@, msg)]
    /\ mu' = [mu EXCEPT ![t] = FALSE]
    /\ \E stop \in FieldWalk(request[t],
                     [loc[t][w] EXCEPT !.fieldFlag = FALSE, !.key = ""]) :
         /\ pc' = [pc EXCEPT ![t][w] = stop[1]]
         /\ loc' = [loc EXCEPT ![t][w] = stop[2]]
    /\ UNCHANGED <<inputs, show, mainpc, index, results, request, requestChan, wg,
                   started>>

\* result.SuccessRequests += 1; Unlock.
CountSuccess(t, w) ==
    /\ pc[t][w] = "cs451"
    /\ result' = [result EXCEPT ![t].SuccessRequests = @ + 1]
    /\ mu' = [mu EXCEPT ![t] = FALSE]
    /\ pc' = [pc EXCEPT ![t][w] = "range"]
    /\ loc' = [loc EXCEPT ![t][w] = NoLocals]
    /\ UNCHANGED <<inputs, show, mainpc, index, results, request, requestChan, wg,
                   started>>

\* result.ErrorCodes[resp.StatusCode]++; Unlock.
CountErrorCode(t, w) ==
    /\ pc[t][w] = "cs456"
    /\ result' = [result EXCEPT ![t].ErrorCodes = Increment(@, loc[t][w].StatusCode)]
    /\ mu' = [mu EXCEPT ![t] = FALSE]
    /\ pc' = [pc EXCEPT ![t][w] = "range"]
    /\ loc' = [loc EXCEPT ![t][w] = NoLocals]
    /\ UNCHANGED <<inputs, show, mainpc, index, results, request, requestChan, wg,
                   started>>

Worker(t, w) ==
    \/ Range(t, w)
    \/ DoRequest(t, w)
    \/ Lock(t, w)
    \/ CountTotal(t, w)
    \/ CountTimeout(t, w)
    \/ CountError(t, w)
    \/ ReadAll(t, w)
    \/ AppendLatency(t, w)
    \/ CountReadError(t, w)
    \/ CountField(t, w)
    \/ CountSuccess(t, w)
    \/ CountErrorCode(t, w)

Main ==
    \/ RunTestNext
    \/ Enqueue
    \/ CloseChan
    \/ Launch
    \/ Wait
    \/ Finish

\* One campaign: a single configuration, with concurrency and request count
\* adding up to MaxLoad at most.
Init ==
    /\ requestList \in [1..1 -> Configs]
    /\ concurrency \in 1..MaxC
    /\ totalRequests \in 1..MaxN
    /\ concurrency + totalRequests <= MaxLoad
    /\ Start

\* A run over a list of configurations, each campaign sending one request.
RunConfigs == {CfgBadURL, CfgCode}
RunCounts == {1}
RunInit ==
    /\ requestList \in UNION {[1..n -> RunConfigs] : n \in 1..MaxTargets}
    /\ concurrency \in 1..MaxC
    /\ totalRequests \in RunCounts
    /\ Start

Next == Main \/ \E t \in Targets, w \in Workers : Worker(t, w)

Spec == Init /\ [][Next]_vars

\* One campaign of a configuration that exercises every path of the worker.
FairConfigs == {CfgBadURL, CfgCode}
FairInit ==
    /\ requestList \in [1..1 -> FairConfigs]
    /\ concurrency \in 1..MaxC
    /\ totalRequests \in 1..MaxN
    /\ concurrency + totalRequests <= MaxLoad
    /\ Start

\* Go schedules every runnable goroutine, and every request returns or times
\* out (http.Client.Timeout), so each enabled step is eventually taken.
FairSpec ==
    /\ FairInit /\ [][Next]_vars
    /\ WF_vars(Main)
    /\ \A t \in Targets, w \in Workers : WF_vars(Worker(t, w))

RunSpec == RunInit /\ [][Next]_vars

\* showResult on the result of one campaign that recorded any sequence of up
\* to MaxLen latencies; MaxTime and AvgTime are what runSingleConfigTest
\* computed from it.
HistTimes == {0, 99, 100, 250}
HistInit ==
    /\ \E times \in UNION {[1..n -> HistTimes] : n \in 0..MaxLen}, total \in WallTimes :
         LET sent == IF Len(times) = 0 THEN 1 ELSE Len(times)
             r == [NewResult(CfgPlain) EXCEPT
                     !.TotalRequests = sent,
                     !.SuccessRequests = Len(times),
                     !.RequestsTimes = times,
                     !.TotalTime = total,
                     !.AvgTime = average(times),
                     !.MaxTime = maxDuration(times)]
         IN /\ totalRequests = sent
            /\ results = <<r>>
            /\ result = [t \in Targets |-> IF t = 1 THEN r ELSE NewResult(CfgPlain)]
    /\ requestList = <<CfgPlain>>
    /\ concurrency = 1
    /\ mainpc = "show"
    /\ index = 2
    /\ request = [t \in Targets |-> CfgPlain]
    /\ requestChan = [t \in Targets |-> [n |-> 0, closed |-> t = 1]]
    /\ wg = [t \in Targets |-> 0]
    /\ mu = [t \in Targets |-> FALSE]
    /\ started = [t \in Targets |-> IF t = 1 THEN 1 ELSE 0]
    /\ pc = [t \in Targets |-> [w \in Workers |->
                IF t = 1 /\ w = 1 THEN "done" ELSE "idle"]]
    /\ loc = [t \in Targets |-> [w \in Workers |-> NoLocals]]
    /\ showIndex = 1
    /\ distribution = <<>>
    /\ position = 1

HistNext == MakeDistribution \/ CountLatency \/ PrintDistribution

HistSpec == HistInit /\ [][HistNext]_vars

(* ------------------------- derived notions ----------------------------- *)
\* wg.Wait() of campaign t has returned.
Completed(t) == t < index \/ (t = index /\ mainpc = "finish")

RECURSIVE SumCounts(_)
SumCounts(m) ==
    IF DOMAIN m = {} THEN 0
    ELSE LET k == CHOOSE x \in DOMAIN m : TRUE
         IN m[k] + SumCounts([x \in DOMAIN m \ {k} |-> m[x]])

\* Worker w of campaign t holds an outcome it has not finished folding.
Folding(t, w) == pc[t][w] \notin {"idle", "range", "request", "done"}

\* The step ends worker w's handling of its current outcome.
Finishes(t, w) == Folding(t, w) /\ pc'[t][w] \in {"range", "done"}

\* The expected status of target t as the specification file gives it.
Expected(t) == IF requestList[t].Status = 0 THEN 200 ELSE requestList[t].Status

(* ------------------------------ claims --------------------------------- *)
\* C1: once all workers of a campaign have exited, TotalRequests equals the
\* requested count N.
C1_AttemptedEqualsN ==
    \A t \in Targets : Completed(t) => result[t].TotalRequests = totalRequests

\* C2: at campaign completion the latency sequence has exactly one entry per
\* success and per timeout.
C2_LatencyPerSuccessOrTimeout ==
    \A t \in Targets :
        Completed(t) =>
            Len(result[t].RequestsTimes)
                = result[t].SuccessRequests + result[t].RequestTimeoutNum

\* C3: at campaign completion every outcome is counted in exactly one of
\* SuccessRequests, RequestTimeoutNum, ErrorCodes and ErrorMessages.
C3_OneClassificationPerOutcome ==
    \A t \in Targets :
        Completed(t) =>
            result[t].SuccessRequests + result[t].RequestTimeoutNum
              + SumCounts(result[t].ErrorCodes) + SumCounts(result[t].ErrorMessages)
                = result[t].TotalRequests

\* C4: a worker leaves its loop only when the queue is drained; no outcome
\* makes it exit while units remain.
C4_FailuresRecoveredLocally ==
    [][\A t \in Targets, w \in Workers :
          (pc[t][w] # "done" /\ pc'[t][w] = "done") => requestChan[t].n = 0]_vars

\* C5: whenever the mutex is free, no worker is part-way through folding an
\* outcome it has already counted in TotalRequests.
C5_OutcomeFoldedAtomically ==
    \A t \in Targets :
        ~mu[t] => \A w \in Workers : pc[t][w] \in {"idle", "range", "request", "lock387", "done"}

\* The fields of the Result the workers write.
Shared(r) == <<r.TotalRequests, r.SuccessRequests, r.RequestTimeoutNum,
               r.RequestsTimes, r.ErrorCodes, r.ErrorMessages>>

\* The workers of campaign t that are inside a critical section.
Holders(t) == {w \in Workers : pc[t][w] \in Sections}

MutexHeldByOne(t) == Cardinality(Holders(t)) <= 1 /\ (mu[t] <=> Holders(t) # {})

\* C6: at most one worker holds the campaign mutex at a time, and every step
\* that writes a shared field of the Result is taken by the worker holding it.
C6_WritesUnderMutex ==
    [][\A t \in Targets :
          /\ MutexHeldByOne(t)
          /\ MutexHeldByOne(t)'
          /\ Shared(result[t])' # Shared(result[t]) =>
                /\ mu[t]
                /\ \E w \in Holders(t) : Holders(t) = {w} /\ pc'[t][w] \notin Sections]_vars

\* C6 witness: one worker is inside a critical section while another waits
\* at a mu.Lock() call.
C6_Witness ==
    \E w1, w2 \in Workers :
        /\ pc[1][w1] \in Sections
        /\ pc[1][w2] \in LockSites
        /\ result[1].TotalRequests >= 1

\* C7: every campaign terminates: runTest eventually returns.
C7_Terminates == <>(mainpc = "return")

\* C7 witness: runTest has returned from a campaign with more workers than
\* requests.
C7_Witness ==
    /\ mainpc = "return"
    /\ concurrency > totalRequests
    /\ \A w \in 1..concurrency : pc[1][w] = "done"

\* C8: no worker of a later campaign has started while a worker of an earlier
\* one is still running, and results holds one Result per finished target,
\* in target order.
C8_CampaignsInOrder ==
    /\ \A s, t \in Targets :
          (s < t /\ \E w \in Workers : pc[t][w] # "idle")
              => \A w \in 1..concurrency : pc[s][w] = "done"
    /\ Len(results) <= Len(requestList)
    /\ \A i \in 1..Len(results) :
          /\ results[i].RequestConfig.URL = requestList[i].URL
          /\ results[i].RequestConfig.Data = requestList[i].Data
          /\ results[i].RequestConfig.Status = Expected(i)
          /\ Shared(results[i]) = Shared(result[i])
    /\ mainpc = "return" => Len(results) = Len(requestList)

\* C8 witness: runTest has returned two results for two different targets,
\* both campaigns having sent a request.
C8_Witness ==
    /\ mainpc = "return"
    /\ Len(results) = 2
    /\ requestList[1] # requestList[2]
    /\ results[1].TotalRequests = 1
    /\ results[2].TotalRequests = 1

\* Worker w of campaign t holds a response (NewRequest returned no error).
Received(t, w) == Folding(t, w) /\ loc[t][w].err = ""

\* The response worker w holds was read in full, has the expected status and
\* every declared field path resolves to its expected value.
ResponseOK(t, w) ==
    /\ Received(t, w)
    /\ ~loc[t][w].readErr
    /\ loc[t][w].StatusCode = Expected(t)
    /\ \A key \in DOMAIN requestList[t].Data :
          gjsonGetValue(loc[t][w].body, key) = requestList[t].Data[key]

C10_StatusMismatchCounted ==
    [][\A t \in Targets :
          /\ \A w \in Workers :
                (Finishes(t, w) /\ Received(t, w) /\ loc[t][w].StatusCode # Expected(t))
                    => /\ result'[t].ErrorCodes
                            = Increment(result[t].ErrorCodes, loc[t][w].StatusCode)
                       /\ result'[t].SuccessRequests = result[t].SuccessRequests
          /\ result'[t].ErrorCodes # result[t].ErrorCodes
                => \E w \in Workers :
                      /\ Finishes(t, w) /\ Received(t, w)
                      /\ loc[t][w].StatusCode # Expected(t)
                      /\ result'[t].ErrorCodes
                            = Increment(result[t].ErrorCodes, loc[t][w].StatusCode)]_vars

\* C10 amended: every response whose body was read in full and whose status
\* differs from the expected one (200 when the target omits it) adds one to
\* ErrorCodes[status] and nothing to SuccessRequests, and nothing else adds to
\* ErrorCodes.
C10_ReadStatusMismatchCounted ==
    [][\A t \in Targets :
          /\ \A w \in Workers :
                (Finishes(t, w) /\ Received(t, w) /\ ~loc[t][w].readErr
                   /\ loc[t][w].StatusCode # Expected(t))
                    => /\ result'[t].ErrorCodes
                            = Increment(result[t].ErrorCodes, loc[t][w].StatusCode)
                       /\ result'[t].SuccessRequests = result[t].SuccessRequests
          /\ result'[t].ErrorCodes # result[t].ErrorCodes
                => \E w \in Workers :
                      /\ Finishes(t, w) /\ Received(t, w) /\ ~loc[t][w].readErr
                      /\ loc[t][w].StatusCode # Expected(t)
                      /\ result'[t].ErrorCodes
                            = Increment(result[t].ErrorCodes, loc[t][w].StatusCode)]_vars

\* C10 witness: a target that omits the expected status answered 500 and the
\* campaign recorded it under ErrorCodes[500], with no success.
C10_Witness ==
    /\ Completed(1)
    /\ requestList[1].Status = 0
    /\ 500 \in DOMAIN result[1].ErrorCodes
    /\ result[1].ErrorCodes[500] >= 1
    /\ result[1].SuccessRequests = 0

\* C11: a request that times out adds one to RequestTimeoutNum and appends one
\* latency, in the step that ends its handling; it adds nothing to
\* SuccessRequests, ErrorMessages or ErrorCodes, and its worker goes back to
\* the range loop.  Nothing else adds to RequestTimeoutNum.
C11_TimeoutCountedApart ==
    [][\A t \in Targets :
          /\ \A w \in Workers :
                (Folding(t, w) /\ loc[t][w].err = "timeout" /\ pc'[t][w] # pc[t][w])
                    => /\ result'[t].SuccessRequests = result[t].SuccessRequests
                       /\ result'[t].ErrorMessages = result[t].ErrorMessages
                       /\ result'[t].ErrorCodes = result[t].ErrorCodes
                       /\ pc'[t][w] # "done"
                       /\ IF Finishes(t, w)
                          THEN /\ result'[t].RequestTimeoutNum
                                    = result[t].RequestTimeoutNum + 1
                               /\ Len(result'[t].RequestsTimes)
                                    = Len(result[t].RequestsTimes) + 1
                          ELSE /\ result'[t].RequestTimeoutNum = result[t].RequestTimeoutNum
                               /\ result'[t].RequestsTimes = result[t].RequestsTimes
          /\ result'[t].RequestTimeoutNum # result[t].RequestTimeoutNum
                => \E w \in Workers : Finishes(t, w) /\ loc[t][w].err = "timeout"]_vars

\* C11 witness: a campaign counted a timeout and went on to a second request.
C11_Witness ==
    /\ Completed(1)
    /\ result[1].RequestTimeoutNum = 1
    /\ result[1].TotalRequests = 2
    /\ Len(result[1].RequestsTimes) = 1

\* C12: resolving "a.b.c" yields 5 in {"a":{"b":{"c":5}}}, nothing in
\* {"a":{"b":{}}} and null in {"a":{"b":{"c":null}}}, and a response with the
\* expected status meets an expectation of null for a path exactly when the
\* path exists in its body and holds null.
C12_MissingDistinctFromNull ==
    [][/\ gjsonGetValue(BodyFive, "a.b.c") = Num(5)
       /\ ~Descend(BodyEmpty, SplitPath("a.b.c")).Exists
       /\ gjsonGetValue(BodyNull, "a.b.c") = Nil
       /\ \A t \in Targets, w \in Workers :
            (/\ Finishes(t, w) /\ Received(t, w) /\ ~loc[t][w].readErr
             /\ loc[t][w].StatusCode = Expected(t)
             /\ DOMAIN requestList[t].Data = {"a.b.c"}
             /\ requestList[t].Data["a.b.c"] = Nil)
                => LET found == Descend(loc[t][w].body, SplitPath("a.b.c"))
                   IN (result'[t].SuccessRequests = result[t].SuccessRequests + 1)
                          <=> (found.Exists /\ found.val = Nil)]_vars

\* The messages of the declared fields of target t that the body mismatches.
MismatchMessages(t, body) ==
    {FieldMessage(key, requestList[t].Data[key], gjsonGetValue(body, key)) :
        key \in {k \in DOMAIN requestList[t].Data :
                    gjsonGetValue(body, k) # requestList[t].Data[k]}}

\* C13: the field check never short-circuits.  A worker holding a fully read
\* response changes ErrorMessages only by adding one to the entry of one
\* mismatching path of that response; when it ends the handling, every
\* mismatching path has its entry, whatever order the paths were visited in,
\* and in a campaign of one request the entries are exactly the mismatching
\* paths, each counted once: a matching path adds none.
C13_EveryMismatchCounted ==
    [][\A t \in Targets, w \in Workers :
          (Folding(t, w) /\ Received(t, w) /\ ~loc[t][w].readErr /\ pc'[t][w] # pc[t][w])
              => LET bad == MismatchMessages(t, loc[t][w].body)
                 IN /\ result'[t].ErrorMessages # result[t].ErrorMessages
                          => \E msg \in bad :
                                result'[t].ErrorMessages
                                    = Increment(result[t].ErrorMessages, msg)
                    /\ Finishes(t, w)
                          => /\ bad \subseteq DOMAIN result'[t].ErrorMessages
                             /\ totalRequests = 1
                                   => result'[t].ErrorMessages = [msg \in bad |-> 1]]_vars

\* A campaign of one request whose response mismatched two declared paths
\* has ended with both entries.
C13_Witness ==
    /\ Completed(1)
    /\ totalRequests = 1
    /\ Cardinality(DOMAIN requestList[1].Data) = 2
    /\ Cardinality(DOMAIN result[1].ErrorMessages) = 2
    /\ BodyReadMessage \notin DOMAIN result[1].ErrorMessages

\* The largest element of a latency sequence, 0 for the empty one.
Largest(times) ==
    IF Len(times) = 0 THEN 0
    ELSE CHOOSE m \in {times[j] : j \in 1..Len(times)} :
            \A j \in 1..Len(times) : times[j] <= m

\* The latencies of a sequence whose 100 ms bin is b (0-based).
InBin(times, b) == {j \in 1..Len(times) : times[j] \div 100 = b}

\* C14: showResult never indexes the histogram out of range, and when its
\* loop over a latency sequence is over the histogram has max/100 + 1
\* buckets, the bucket counts sum to the length of the sequence, and every
\* bucket but the last holds exactly the latencies d with d/100 equal to its
\* index, so only the last bucket may hold a value at or above its nominal
\* upper bound.
C14_HistogramBuckets ==
    /\ mainpc # "panic"
    /\ (mainpc = "count" /\ position > Len(results[showIndex].RequestsTimes))
          => LET times == results[showIndex].RequestsTimes
                 last == Largest(times) \div 100
             IN /\ Len(distribution) = last + 1
                /\ SumCounts(distribution) = Len(times)
                /\ \A b \in 0..(last - 1) :
                      distribution[b + 1] = Cardinality(InBin(times, b))
                /\ distribution[last + 1]
                      = Cardinality({j \in 1..Len(times) : times[j] \div 100 >= last})

\* The histogram of a sequence spread over three buckets is complete.
C14_Witness ==
    /\ mainpc = "count"
    /\ position > Len(results[showIndex].RequestsTimes)
    /\ Len(distribution) = 3
    /\ distribution[1] = 1
    /\ distribution[2] = 1
    /\ distribution[3] = 1

\* C15: once a campaign has returned, its AvgTime is the sum of the latency
\* sequence divided by its length, rounded down, and its MaxTime is the
\* largest element; both are 0 for the empty sequence, and MaxTime is at
\* least every element and at least AvgTime.
C15_AverageAndMax ==
    \A t \in Targets :
        t < index =>
            LET r == results[t]
                times == r.RequestsTimes
                n == Len(times)
            IN /\ result[t] = r
               /\ n = 0 => r.AvgTime = 0 /\ r.MaxTime = 0
               /\ n > 0 => /\ r.AvgTime * n <= SumCounts(times)
                           /\ SumCounts(times) < (r.AvgTime + 1) * n
                           /\ \E j \in 1..n : times[j] = r.MaxTime
               /\ \A j \in 1..n : times[j] <= r.MaxTime
               /\ r.MaxTime >= r.AvgTime

\* A campaign returned with two different latencies whose mean is not whole.
C15_Witness ==
    /\ index > 1
    /\ Len(results[1].RequestsTimes) = 2
    /\ results[1].AvgTime = 77
    /\ results[1].MaxTime = 135

\* C16: a request NewRequest fails to build adds one to TotalRequests in the
\* first step of its handling and one to its message's entry of ErrorMessages
\* in the last, and nothing else: no latency, no success, no timeout, no
\* status code; its worker goes back to the range loop.  A campaign whose URL
\* does not parse therefore ends with N such errors and nothing else.
C16_BuildFailureCounted ==
    [][\A t \in Targets :
          /\ \A w \in Workers :
                (Folding(t, w) /\ loc[t][w].err = "build" /\ pc'[t][w] # pc[t][w])
                    => /\ result'[t].SuccessRequests = result[t].SuccessRequests
                       /\ result'[t].RequestTimeoutNum = result[t].RequestTimeoutNum
                       /\ result'[t].RequestsTimes = result[t].RequestsTimes
                       /\ result'[t].ErrorCodes = result[t].ErrorCodes
                       /\ pc'[t][w] # "done"
                       /\ result'[t].TotalRequests
                             = result[t].TotalRequests + (IF pc[t][w] = "cs388" THEN 1 ELSE 0)
                       /\ result'[t].ErrorMessages
                             = IF Finishes(t, w)
                               THEN Increment(result[t].ErrorMessages, loc[t][w].errMessage)
                               ELSE result[t].ErrorMessages
          /\ (Completed(t) /\ requestList[t].URL = BadURL)
                => /\ result[t].TotalRequests = totalRequests
                   /\ result[t].ErrorMessages = (URLParseMessage :> totalRequests)
                   /\ result[t].RequestsTimes = <<>>]_vars

\* A campaign of two requests to a URL that does not parse has ended.
C16_Witness ==
    /\ Completed(1)
    /\ requestList[1].URL = BadURL
    /\ totalRequests = 2
    /\ result[1].ErrorMessages = (URLParseMessage :> 2)

\* The fields of the Result runSingleConfigTest derives after the barrier.
Derived(r) == <<r.TotalTime, r.AvgTime, r.MaxTime>>

\* C19: no step writes a field the workers fold into once wg.Wait() of the
\* campaign has returned; TotalTime, AvgTime and MaxTime are written in one
\* step only, taken by the goroutine running runTest after wg.Wait(), when
\* all C workers have exited and the fields are still unset; and the result
\* of a campaign that has returned never changes again.
C19_ResultFrozenAfterBarrier ==
    [][\A t \in Targets :
          /\ Shared(result'[t]) # Shared(result[t]) => ~Completed(t)
          /\ Derived(result'[t]) # Derived(result[t])
                => /\ mainpc = "finish" /\ index = t
                   /\ \A w \in 1..concurrency : pc[t][w] = "done"
                   /\ Derived(result[t]) = <<0, 0, 0>>
                   /\ index' = t + 1
          /\ t < index => result'[t] = result[t]]_vars

\* A campaign run by two workers has returned with its derived fields set.
C19_Witness ==
    /\ index > 1
    /\ concurrency = 2
    /\ \A w \in 1..2 : pc[1][w] = "done"
    /\ result[1].TotalRequests = 2
    /\ result[1].TotalTime > 0
    /\ result[1].MaxTime > 0

\* The two error maps of a Result.
ErrorMaps(r) == <<r.ErrorCodes, r.ErrorMessages>>

\* C20: entries of ErrorCodes and ErrorMessages come from outcomes that are
\* not successes.  A step that adds to either map leaves SuccessRequests
\* alone and ends the outcome or leaves it marked as failed; a step that adds
\* to SuccessRequests adds to neither map and belongs to an outcome that
\* added to none; and in every state where either map is non-empty,
\* TotalRequests - SuccessRequests is at least 1.
C20_ErrorsOnlyFromFailures ==
    [][\A t \in Targets :
          /\ \A w \in Workers :
                (Folding(t, w) /\ pc'[t][w] # pc[t][w])
                    => /\ ErrorMaps(result'[t]) # ErrorMaps(result[t])
                             => /\ result'[t].SuccessRequests = result[t].SuccessRequests
                                /\ \/ Finishes(t, w)
                                   \/ ~loc'[t][w].fieldFlag /\ pc'[t][w] # "lock450"
                       /\ result'[t].SuccessRequests # result[t].SuccessRequests
                             => /\ ErrorMaps(result'[t]) = ErrorMaps(result[t])
                                /\ loc[t][w].statusFlag /\ loc[t][w].fieldFlag
                                /\ Finishes(t, w)
          /\ (DOMAIN result[t].ErrorCodes # {} \/ DOMAIN result[t].ErrorMessages # {})
                => result[t].TotalRequests - result[t].SuccessRequests >= 1]_vars

\* A campaign has ended with one success and one status-code error.
C20_Witness ==
    /\ Completed(1)
    /\ result[1].SuccessRequests = 1
    /\ result[1].TotalRequests = 2
    /\ DOMAIN result[1].ErrorCodes # {}

\* The workers of campaign t that took a unit and have not yet counted its
\* attempt in TotalRequests.
Uncounted(t) == {w \in Workers : pc[t][w] \in {"request", "lock387", "cs388"}}

\* The units taken off the channel of campaign t so far.
Dequeued(t) == result[t].TotalRequests + Cardinality(Uncounted(t))

\* C21: the channel is closed holding exactly N units, and no worker runs
\* before that; afterwards no unit is added, a step takes at most one unit
\* and gives it to exactly one worker, a worker starts a request only by
\* taking a unit, and the units taken plus the units still queued are N.
C21_QueuePreloadedAndClosed ==
    [][\A t \in Targets :
          /\ (~requestChan[t].closed /\ requestChan'[t].closed)
                => requestChan[t].n = totalRequests
          /\ (\E w \in Workers : pc[t][w] # "idle") => requestChan[t].closed
          /\ requestChan[t].closed
                => /\ Dequeued(t) + requestChan[t].n = totalRequests
                   /\ requestChan'[t].closed
                         => /\ requestChan'[t].n <= requestChan[t].n
                            /\ requestChan'[t].n >= requestChan[t].n - 1
                            /\ Cardinality({w \in Workers :
                                  pc[t][w] # "request" /\ pc'[t][w] = "request"})
                                  = requestChan[t].n - requestChan'[t].n
          /\ \A w \in Workers :
                (pc[t][w] # "request" /\ pc'[t][w] = "request") => pc[t][w] = "range"]_vars

\* Two workers each hold a unit of a campaign of two requests, one still to
\* send its request and one past it.
C21_Witness ==
    /\ requestChan[1].closed
    /\ totalRequests = 2
    /\ requestChan[1].n = 0
    /\ result[1].TotalRequests = 1
    /\ \E w \in Workers : pc[1][w] = "request"

\* C22: in every state of a campaign, also while an outcome is being folded,
\* the latency sequence is no longer than TotalRequests, and
\* SuccessRequests + RequestTimeoutNum <= TotalRequests <= N.
C22_CountersBounded ==
    \A t \in Targets :
        /\ Len(result[t].RequestsTimes) <= result[t].TotalRequests
        /\ result[t].SuccessRequests + result[t].RequestTimeoutNum
              <= result[t].TotalRequests
        /\ result[t].TotalRequests <= totalRequests

\* The last outcome of a campaign of two requests is part-way through its
\* folding: its latency is recorded, its success not yet.
C22_Witness ==
    /\ totalRequests = 2
    /\ result[1].TotalRequests = 2
    /\ Len(result[1].RequestsTimes) = 2
    /\ result[1].SuccessRequests + result[1].RequestTimeoutNum = 1
    /\ \E w \in Workers : pc[1][w] = "lock450"

\* The workers of campaign t that hold a unit: their request is being sent,
\* awaited, read or folded.
Busy(t) == {w \in Workers : pc[t][w] \notin {"idle", "range", "done"}}

\* The workers of campaign t whose request is on the wire.
InFlight(t) == {w \in Workers : pc[t][w] \in {"request", "read411"}}

Min(a, b) == IF a <= b THEN a ELSE b

\* C23: a campaign never runs more than C workers, and has launched exactly C
\* when it waits for them; a worker holds at most one unit at a time, so the
\* workers holding a unit, and with them the requests in flight, number at
\* most min(C, N).
C23_ConcurrencyBounded ==
    \A t \in Targets :
        /\ started[t] <= concurrency
        /\ {w \in Workers : pc[t][w] # "idle"} = 1..started[t]
        /\ Completed(t) => started[t] = concurrency
        /\ InFlight(t) \subseteq Busy(t)
        /\ Cardinality(Busy(t)) <= Min(concurrency, totalRequests)
        /\ Cardinality(Busy(t)) + requestChan[t].n <= totalRequests

\* Two workers of a campaign of two requests each have a request in flight.
C23_Witness ==
    /\ concurrency = 2
    /\ totalRequests = 2
    /\ Cardinality(InFlight(1)) = 2
====
